---- MODULE Spec2Model ----
(***************************************************************************)
(* A model of the asn1_aper codec: the bit-appending Encoder, the          *)
(* bit-cursor Decoder, the length-determinant codec, the integer codec     *)
(* and the bool / sequence-of adapters.                                    *)
(*                                                                         *)
(* A value of Rust type Result<T, E> is a record [ok, val, err]; a panic   *)
(* of the program is the outcome whose err is "Panic".  A method taking    *)
(* &mut self is an operator returning the new value of self.               *)
(***************************************************************************)
EXTENDS Integers, Sequences, FiniteSets, TLC

VARIABLES enc, dec, inp, ret, pc

vars == <<enc, dec, inp, ret, pc>>

(***************************************************************************)
(* Results                                                                 *)
(***************************************************************************)
Ok(v) == [ok |-> TRUE, val |-> v, err |-> "None"]

Err(e) == [ok |-> FALSE, val |-> 0, err |-> e]

Panic == Err("Panic")

\* Option<i64>
Some(x) == [some |-> TRUE, v |-> x]

None == [some |-> FALSE, v |-> 0]

(***************************************************************************)
(* u8 arithmetic                                                           *)
(***************************************************************************)
Byte == 0..255

BitOf(x, i) == (x \div (2^i)) % 2

\* x << k on u8: the bits shifted out of the octet are lost
Shl8(x, k) == (x * (2^k)) % 256

\* x >> k on u8
Shr8(x, k) == x \div (2^k)

RECURSIVE AndBits(_, _, _)
AndBits(a, b, i) ==
    IF i = 8 THEN 0
    ELSE BitOf(a, i) * BitOf(b, i) * (2^i) + AndBits(a, b, i + 1)

\* a & b on u8
And8(a, b) == AndBits(a, b, 0)

\* a | b on u8
Or8(a, b) == a + b - And8(a, b)

\* (x as f64).log2().ceil() as usize: the cast saturates, so that -inf
\* (x = 0) and NaN (x < 0) both give 0
RECURSIVE CeilLog2From(_, _)
CeilLog2From(x, k) == IF 2^k >= x THEN k ELSE CeilLog2From(x, k + 1)

CeilLog2(x) == IF x <= 1 THEN 0 ELSE CeilLog2From(x, 0)

\* (n as f64 / 8.).ceil() as usize
CeilDiv8(n) == (n + 7) \div 8

(***************************************************************************)
(* Encoder                                                                 *)
(***************************************************************************)
Encoder_new == [bytes |-> <<>>, r_padding |-> 0]

with_bytes_and_padding(bytes, r_pad) == [bytes |-> bytes, r_padding |-> r_pad]

with_bytes(bytes) == with_bytes_and_padding(bytes, 0)

\* utils::shift_bytes_left: shift the byte sequence left by k bits, 0 <= k <= 7
shift_bytes_left(bytes, k) ==
    [i \in 1..Len(bytes) |->
        IF i < Len(bytes)
        THEN Or8(Shl8(bytes[i], k), Shr8(bytes[i + 1], 8 - k))
        ELSE Shl8(bytes[i], k)]

append(self, other) ==
    LET bytes     == other.bytes
        r_padding == other.r_padding
        n         == Len(self.bytes)
    IN  IF n = 0 THEN [bytes |-> bytes, r_padding |-> r_padding]
        ELSE IF Len(bytes) = 0 THEN self
        ELSE IF self.r_padding > 0 THEN
            LET mask    == Shl8(255, r_padding)
                tail    == Or8(self.bytes[n],
                               Shr8(And8(bytes[1], mask), 8 - self.r_padding))
                head    == [self.bytes EXCEPT ![n] = tail]
                shifted == shift_bytes_left(bytes, self.r_padding)
                len     == 8 - r_padding
            IN  IF len <= self.r_padding
                THEN [bytes |-> head \o Tail(shifted),
                      r_padding |-> self.r_padding - len]
                ELSE [bytes |-> head \o shifted,
                      r_padding |-> self.r_padding]
        ELSE [bytes |-> self.bytes \o bytes, r_padding |-> r_padding]

(***************************************************************************)
(* constraints.rs                                                          *)
(***************************************************************************)
LENGTH_DET_SHORT == 0

LENGTH_DET_LONG == 128

LENGTH_DET_FRAG == 192

LENGTH_MASK_SHORT == 127

LENGTH_MASK_LONG == 63

Constraint_new(min, max) == [min |-> min, max |-> max]

\* Option<Constraint>
SomeC(c) == [some |-> TRUE, c |-> c]

NoneC == [some |-> FALSE, c |-> Constraint_new(None, None)]

UNCONSTRAINED == [value |-> NoneC, size |-> NoneC]

(***************************************************************************)
(* byteorder: BigEndian reads and writes of nbytes octets                  *)
(***************************************************************************)
\* the nbytes low octets of v, most significant first (v as u64 for v < 0
\* is its two's complement)
RECURSIVE BEBytes(_, _)
BEBytes(v, nbytes) ==
    IF nbytes = 0 THEN <<>>
    ELSE Append(BEBytes(v \div 256, nbytes - 1), v % 256)

\* byteorder's pack_size(n as u64): the octets needed for n, at least 1
RECURSIVE PackSizeFrom(_, _)
PackSizeFrom(v, k) == IF v < 256 THEN k ELSE PackSizeFrom(v \div 256, k + 1)

pack_size(v) == IF v < 0 THEN 8 ELSE PackSizeFrom(v, 1)

\* Vec<u8>::write_uint::<BigEndian>(v as u64, nbytes): panics unless
\* pack_size(v) <= nbytes <= 8
write_uint(v, nbytes) ==
    IF pack_size(v) <= nbytes /\ nbytes <= 8
    THEN Ok(BEBytes(v, nbytes))
    ELSE Panic

RECURSIVE UintOf(_)
UintOf(buf) ==
    IF Len(buf) = 0 THEN 0
    ELSE UintOf(SubSeq(buf, 1, Len(buf) - 1)) * 256 + buf[Len(buf)]

\* BigEndian::read_uint(buf, nbytes): panics unless 1 <= nbytes <= 8 and
\* nbytes <= buf.len()
read_uint(buf, nbytes) ==
    IF 1 <= nbytes /\ nbytes <= 8 /\ nbytes <= Len(buf)
    THEN Ok(UintOf(SubSeq(buf, 1, nbytes)))
    ELSE Panic

\* BigEndian::read_int(buf, nbytes): read_uint with the sign extended from
\* the top bit of the first octet
read_int(buf, nbytes) ==
    IF 1 <= nbytes /\ nbytes <= 8 /\ nbytes <= Len(buf)
    THEN LET b1 == IF buf[1] >= 128 THEN buf[1] - 256 ELSE buf[1]
         IN  Ok(UintOf(<<0>> \o SubSeq(buf, 2, nbytes)) + b1 * (256^(nbytes - 1)))
    ELSE Panic

(***************************************************************************)
(* encode.rs: length determinant and integer                                *)
(***************************************************************************)
encode_length(len) ==
    IF len < 128
    THEN Ok(with_bytes(<<Or8(And8(len % 256, LENGTH_MASK_SHORT), LENGTH_DET_SHORT)>>))
    ELSE IF len < 65535
    THEN LET upper == (len \div 256) % 256
             lower == len % 256
         IN  Ok(with_bytes(<<Or8(And8(upper, LENGTH_MASK_LONG), LENGTH_DET_LONG),
                             lower>>))
    ELSE Err("NotImplemented")

\* the tail of encode_int shared by its length-prefixed paths: the length
\* determinant of len, then v written as len big-endian octets
encode_int_octets(v, len) ==
    LET Written(enc_r, bytes) ==
            IF ~enc_r.ok THEN enc_r
            ELSE IF ~bytes.ok THEN bytes
            ELSE Ok(append(enc_r.val, with_bytes(bytes.val)))
    IN  Written(encode_length(len), write_uint(v, len))

\* The set of the outcomes of encode_int(value, min, max).  The shift of a
\* u8 by 8 - n_bits = 8 overflows: the call panics where overflow checks
\* are compiled in, and the shift amount wraps to 0 where they are not.
encode_int(value, min, max) ==
    IF min.some /\ max.some THEN
        LET l      == min.v
            h      == max.v
            v      == value - l
            range  == h - l + 1
            n_bits == CeilLog2(range)
        IN  IF n_bits < 8 THEN
                IF 8 - n_bits >= 8
                THEN {Panic,
                      Ok(with_bytes_and_padding(<<Shl8(v % 256, (8 - n_bits) % 8)>>,
                                                8 - n_bits))}
                ELSE {Ok(with_bytes_and_padding(<<Shl8(v % 256, 8 - n_bits)>>,
                                                8 - n_bits))}
            ELSE IF n_bits <= 16 THEN
                {Ok(with_bytes(IF n_bits > 8
                               THEN <<(v \div 256) % 256, v % 256>>
                               ELSE <<v % 256>>))}
            ELSE {encode_int_octets(v, CeilDiv8(n_bits))}
    ELSE
        LET n_bits == CeilLog2(value)
            len    == CeilDiv8(n_bits)
        IN  {encode_int_octets(IF min.some THEN value - min.v ELSE value, len)}

(***************************************************************************)
(* bool.rs                                                                 *)
(***************************************************************************)
bool_to_aper(self) ==
    Ok(with_bytes_and_padding(<<Shl8(IF self THEN 1 ELSE 0, 7)>>, 7))

(***************************************************************************)
(* decode.rs: the bit cursor.  An operation on &mut self is a record with  *)
(* its result res and the decoder self it leaves behind.                   *)
(***************************************************************************)
Decoder_new(data) == [data |-> data, len |-> 8 * Len(data), pos |-> 0]

\* read with the second branch's mask dropped: a read that ends on an octet
\* boundary returns the whole octet it starts in
read_unmasked(self, n) ==
    IF n = 0 THEN [res |-> Ok(0), self |-> self]
    ELSE IF self.pos + n > self.len
    THEN [res |-> Err("NotEnoughBits"), self |-> self]
    ELSE
        LET l_bucket == self.pos \div 8
            h_bucket == (self.pos + n) \div 8
            h_off    == (self.pos + n) - h_bucket * 8
            val ==
                IF l_bucket = h_bucket THEN
                    LET mask == Shl8(Shr8(255, 8 - n), 8 - h_off)
                    IN  Shr8(And8(self.data[l_bucket + 1], mask), 8 - h_off)
                ELSE IF l_bucket < h_bucket /\ h_off = 0 THEN
                    self.data[l_bucket + 1]
                ELSE
                    LET l_mask == Shr8(255, 8 - (n - h_off))
                        h_mask == Shl8(255, 8 - h_off)
                    IN  Or8(Shl8(And8(self.data[l_bucket + 1], l_mask), h_off),
                            Shr8(And8(self.data[h_bucket + 1], h_mask), 8 - h_off))
        IN  [res |-> Ok(val), self |-> [self EXCEPT !.pos = self.pos + n]]

\* read with self.pos += n moved above the bounds check: a failed read
\* leaves the cursor advanced
read_unchecked(self, n) ==
    IF n = 0 THEN [res |-> Ok(0), self |-> self]
    ELSE IF self.pos + n > self.len
    THEN [res |-> Err("NotEnoughBits"),
          self |-> [self EXCEPT !.pos = self.pos + n]]
    ELSE
        LET l_bucket == self.pos \div 8
            h_bucket == (self.pos + n) \div 8
            h_off    == (self.pos + n) - h_bucket * 8
            val ==
                IF l_bucket = h_bucket THEN
                    LET mask == Shl8(Shr8(255, 8 - n), 8 - h_off)
                    IN  Shr8(And8(self.data[l_bucket + 1], mask), 8 - h_off)
                ELSE IF l_bucket < h_bucket /\ h_off = 0 THEN
                    LET mask == Shr8(255, 8 - n)
                    IN  And8(self.data[l_bucket + 1], mask)
                ELSE
                    LET l_mask == Shr8(255, 8 - (n - h_off))
                        h_mask == Shl8(255, 8 - h_off)
                    IN  Or8(Shl8(And8(self.data[l_bucket + 1], l_mask), h_off),
                            Shr8(And8(self.data[h_bucket + 1], h_mask), 8 - h_off))
        IN  [res |-> Ok(val), self |-> [self EXCEPT !.pos = self.pos + n]]

read(self, n) ==
    IF n = 0 THEN [res |-> Ok(0), self |-> self]
    ELSE IF self.pos + n > self.len
    THEN [res |-> Err("NotEnoughBits"), self |-> self]
    ELSE
        LET l_bucket == self.pos \div 8
            h_bucket == (self.pos + n) \div 8
            h_off    == (self.pos + n) - h_bucket * 8
            val ==
                IF l_bucket = h_bucket THEN
                    LET mask == Shl8(Shr8(255, 8 - n), 8 - h_off)
                    IN  Shr8(And8(self.data[l_bucket + 1], mask), 8 - h_off)
                ELSE IF l_bucket < h_bucket /\ h_off = 0 THEN
                    LET mask == Shr8(255, 8 - n)
                    IN  And8(self.data[l_bucket + 1], mask)
                ELSE
                    LET l_mask == Shr8(255, 8 - (n - h_off))
                        h_mask == Shl8(255, 8 - h_off)
                    IN  Or8(Shl8(And8(self.data[l_bucket + 1], l_mask), h_off),
                            Shr8(And8(self.data[h_bucket + 1], h_mask), 8 - h_off))
        IN  [res |-> Ok(val), self |-> [self EXCEPT !.pos = self.pos + n]]

read_u8(self) == read(self, 8)

\* the loop of read_to_vec: push read_u8()? num_bytes times
RECURSIVE read_bytes(_, _, _)
read_bytes(self, content, num_bytes) ==
    IF num_bytes = 0 THEN [res |-> Ok(0), self |-> self, content |-> content]
    ELSE LET Pushed(r) ==
                 IF ~r.res.ok
                 THEN [res |-> r.res, self |-> r.self, content |-> content]
                 ELSE read_bytes(r.self, Append(content, r.res.val), num_bytes - 1)
         IN  Pushed(read_u8(self))

read_to_vec(self, content, len) ==
    IF len = 0 THEN [res |-> Ok(0), self |-> self, content |-> content]
    ELSE IF self.pos + len > self.len
    THEN [res |-> Err("NotEnoughBits"), self |-> self, content |-> content]
    ELSE IF len < 8 THEN
        LET Pushed(r) ==
                IF ~r.res.ok
                THEN [res |-> r.res, self |-> r.self, content |-> content]
                ELSE [res |-> Ok(0), self |-> r.self,
                      content |-> Append(content, r.res.val)]
        IN  Pushed(read(self, len))
    ELSE
        LET Rewound(r) ==
                IF ~r.res.ok THEN r
                ELSE [res |-> Ok(0),
                      self |-> [r.self EXCEPT !.pos = r.self.pos - (len % 8)],
                      content |-> r.content]
        IN  Rewound(read_bytes(self, content, CeilDiv8(len)))

decode_length(self) ==
    LET Long(len, r2) ==
            IF ~r2.res.ok
            THEN [res |-> Err("MalformedLength"), self |-> r2.self]
            ELSE [res |-> Ok(len * 256 + r2.res.val), self |-> r2.self]
        First(r1) ==
            IF ~r1.res.ok THEN [res |-> Err("MalformedLength"), self |-> r1.self]
            ELSE IF And8(r1.res.val, LENGTH_DET_FRAG) > 0
            THEN [res |-> Err("NotImplemented"), self |-> r1.self]
            ELSE IF And8(r1.res.val, LENGTH_DET_LONG) > 0
            THEN Long(And8(r1.res.val, LENGTH_MASK_LONG), read_u8(r1.self))
            ELSE [res |-> Ok(And8(r1.res.val, LENGTH_MASK_SHORT)), self |-> r1.self]
    IN  First(read_u8(self))

decode_int(self, min, max) ==
    IF min.some /\ max.some THEN
        LET l == min.v
            h == max.v
            \* n_bits < 8
            SubOctet(r) ==
                IF ~r.res.ok THEN r
                ELSE [res |-> Ok(r.res.val + l), self |-> r.self]
            \* 8 < n_bits <= 16
            Second(val, r2) ==
                IF ~r2.res.ok THEN r2
                ELSE [res |-> Ok(r2.res.val + ((val * 256) % 65536) + l),
                      self |-> r2.self]
            \* 8 <= n_bits <= 16
            Octets(n_bits, r1) ==
                IF ~r1.res.ok THEN r1
                ELSE IF n_bits # 8 THEN Second(r1.res.val, read_u8(r1.self))
                ELSE [res |-> Ok(r1.res.val + l), self |-> r1.self]
            Checked(rv, u) ==
                IF ~u.ok THEN [res |-> u, self |-> rv.self]
                ELSE IF u.val + l < l \/ u.val + l > h
                THEN [res |-> Err("MalformedInt"), self |-> rv.self]
                ELSE [res |-> Ok(u.val + l), self |-> rv.self]
            Content(len, rv) ==
                IF ~rv.res.ok THEN [res |-> rv.res, self |-> rv.self]
                ELSE Checked(rv, read_uint(rv.content, len))
            \* n_bits > 16
            Prefixed(rl) ==
                IF ~rl.res.ok THEN rl
                ELSE IF rl.res.val > 8
                THEN [res |-> Err("NotImplemented"), self |-> rl.self]
                ELSE Content(rl.res.val, read_to_vec(rl.self, <<>>, rl.res.val * 8))
            Constrained(n_bits) ==
                IF n_bits < 8 THEN SubOctet(read(self, n_bits))
                ELSE IF n_bits <= 16 THEN Octets(n_bits, read_u8(self))
                ELSE Prefixed(decode_length(self))
        IN  Constrained(CeilLog2(h - l + 1))
    ELSE
        LET Signed(rv, i) ==
                IF ~i.ok THEN [res |-> i, self |-> rv.self]
                ELSE [res |-> Ok(IF min.some THEN i.val + min.v ELSE i.val),
                      self |-> rv.self]
            Content(len, rv) ==
                IF ~rv.res.ok THEN [res |-> rv.res, self |-> rv.self]
                ELSE Signed(rv, read_int(rv.content, len))
            Prefixed(rl) ==
                IF ~rl.res.ok THEN rl
                ELSE Content(rl.res.val, read_to_vec(rl.self, <<>>, rl.res.val * 8))
        IN  Prefixed(decode_length(self))

\* bool.rs
bool_from_aper(decoder) ==
    LET Value(r) ==
            IF ~r.res.ok THEN r
            ELSE [res |-> Ok(r.res.val > 0), self |-> r.self]
    IN  Value(read(decoder, 1))

(***************************************************************************)
(* The bit string an Encoder stands for: all the bits of bytes, most       *)
(* significant first, minus the last r_padding bits.                       *)
(***************************************************************************)
BitLen(e) == 8 * Len(e.bytes) - e.r_padding

Bits(e) ==
    [i \in 1..BitLen(e) |-> BitOf(e.bytes[((i - 1) \div 8) + 1], 7 - ((i - 1) % 8))]

\* the encoder invariant: r_padding in [0, 7], the low r_padding bits of the
\* last byte zero, no padding without a byte
EncoderInv(e) ==
    /\ e.r_padding \in 0..7
    /\ Len(e.bytes) = 0 => e.r_padding = 0
    /\ Len(e.bytes) > 0 => e.bytes[Len(e.bytes)] % (2^e.r_padding) = 0

(***************************************************************************)
(* Bounds                                                                  *)
(***************************************************************************)
\* the longest byte vector of an encoder given to with_bytes_and_padding
MaxBytes == 2

\* the octets the byte vectors are drawn from
ByteSamples == {0, 255, 165, 90}

ByteSeqs(n) == UNION {[1..k -> ByteSamples] : k \in 0..n}

\* the encoders of at most MaxBytes bytes that satisfy the encoder invariant
ValidEncoders ==
    {with_bytes_and_padding(<<>>, 0)} \cup
    {with_bytes_and_padding(
        [b EXCEPT ![Len(b)] = And8(b[Len(b)], Shl8(255, r))], r) :
        b \in ByteSeqs(MaxBytes) \ {<<>>}, r \in 0..7}

NoDecoder == Decoder_new(<<>>)

NoInput == [op |-> "none"]

(***************************************************************************)
(* SpecAppend: two encoders that satisfy the invariant, self.append(other) *)
(***************************************************************************)
AppendInit ==
    /\ enc = Encoder_new
    /\ dec = NoDecoder
    /\ inp = NoInput
    /\ ret = Ok(0)
    /\ pc = "new"

\* let mut self = Encoder::with_bytes_and_padding(bytes, r_pad)
Seed ==
    /\ pc = "new"
    /\ \E e \in ValidEncoders :
         enc' = with_bytes_and_padding(e.bytes, e.r_padding)
    /\ pc' = "seeded"
    /\ UNCHANGED <<dec, inp, ret>>

\* self.append(&other)
AppendOther ==
    /\ pc = "seeded"
    /\ \E other \in ValidEncoders :
         /\ enc' = append(enc, other)
         /\ inp' = [op |-> "append", self |-> enc, other |-> other]
    /\ pc' = "appended"
    /\ UNCHANGED <<dec, ret>>

AppendNext == Seed \/ AppendOther

SpecAppend == AppendInit /\ [][AppendNext]_vars

\* C1: after self.append(other) the bit string of the result is the bit
\* string of self before the call followed by the bit string of other, and
\* the result satisfies the encoder invariant.
C1_AppendConcatenates ==
    pc = "appended" =>
        /\ Bits(enc) = Bits(inp.self) \o Bits(inp.other)
        /\ EncoderInv(enc)

(***************************************************************************)
(* SpecCompose: a composed type appends the fragments of its fields in     *)
(* declaration order onto Encoder::new() and decodes them in the same      *)
(* order from a Decoder over the bytes.                                    *)
(***************************************************************************)
\* the fields of one composed value
MaxFields == 3

\* the (min, max) of the fully constrained integer fields: 2, 3, 4 and 5
\* bits, one octet, two octets, and a length-prefixed range
IntRanges ==
    {<<500, 503>>, <<0, 7>>, <<0, 15>>, <<0, 31>>,
     <<0, 255>>, <<-128, 127>>, <<0, 65535>>, <<0, 299>>, <<0, 70000>>}

\* a boolean field holds its value as 1 (true) or 0 (false)
BoolField(b) == [kind |-> "bool", v |-> b, min |-> None, max |-> None]

IntField(v, l, h) == [kind |-> "int", v |-> v, min |-> Some(l), max |-> Some(h)]

Fields ==
    {BoolField(b) : b \in {0, 1}} \cup
    UNION {{IntField(r[1], r[1], r[2]), IntField(r[2], r[1], r[2]),
            IntField(r[1] + ((r[2] - r[1]) \div 3), r[1], r[2])} : r \in IntRanges}

\* x.to_aper(..) of a field: the set of its outcomes
field_to_aper(f) ==
    IF f.kind = "bool" THEN {bool_to_aper(f.v = 1)}
    ELSE encode_int(f.v, f.min, f.max)

\* T::from_aper(decoder, ..) of a field
field_from_aper(decoder, f) ==
    IF f.kind = "bool"
    THEN LET AsInt(r) ==
                 IF ~r.res.ok THEN r
                 ELSE [res |-> Ok(IF r.res.val THEN 1 ELSE 0), self |-> r.self]
         IN  AsInt(bool_from_aper(decoder))
    ELSE decode_int(decoder, f.min, f.max)

\* n_bits of a fully constrained integer field
n_bits_of(f) == CeilLog2(f.max.v - f.min.v + 1)

ComposeInit ==
    /\ enc = Encoder_new
    /\ dec = NoDecoder
    /\ inp = [op |-> "compose", fields |-> <<>>, starts |-> <<>>]
    /\ ret = <<>>
    /\ pc = "encoding"

\* enc.append(&field.to_aper(..)?); starts records the bit offset at which
\* append places the first bit of the fragment
AppendField ==
    /\ pc = "encoding"
    /\ Len(inp.fields) < MaxFields
    /\ \E f \in Fields : \E frag \in field_to_aper(f) :
         /\ frag.ok
         /\ enc' = append(enc, frag.val)
         /\ inp' = [inp EXCEPT !.fields = Append(@, f),
                               !.starts = Append(@, BitLen(enc))]
    /\ UNCHANGED <<dec, ret, pc>>

\* let mut d = Decoder::new(enc.bytes())
NewDecoder ==
    /\ pc = "encoding"
    /\ Len(inp.fields) > 0
    /\ dec' = Decoder_new(enc.bytes)
    /\ pc' = "decoding"
    /\ UNCHANGED <<enc, inp, ret>>

\* the next field's from_aper(&mut d, ..)
DecodeField ==
    /\ pc = "decoding"
    /\ Len(ret) < Len(inp.fields)
    /\ LET r == field_from_aper(dec, inp.fields[Len(ret) + 1])
       IN  /\ dec' = r.self
           /\ ret' = Append(ret, r.res)
           /\ pc' = IF r.res.ok THEN "decoding" ELSE "failed"
    /\ UNCHANGED <<enc, inp>>

ComposeNext == AppendField \/ NewDecoder \/ DecodeField

SpecCompose == ComposeInit /\ [][ComposeNext]_vars

\* C2: decoding the fields in the order in which their fragments were
\* appended returns every value unchanged.
C2_ComposedRoundTrip ==
    pc \in {"decoding", "failed"} =>
        \A i \in 1..Len(ret) : ret[i].ok /\ ret[i].val = inp.fields[i].v

\* C3: every whole-octet constrained integer field (8 <= n_bits <= 16)
\* starts at a bit offset of the output that is a multiple of 8.
C3_WholeOctetFieldsAligned ==
    pc = "encoding" =>
        \A i \in 1..Len(inp.fields) :
            (/\ inp.fields[i].kind = "int"
             /\ n_bits_of(inp.fields[i]) >= 8
             /\ n_bits_of(inp.fields[i]) <= 16) => inp.starts[i] % 8 = 0

(***************************************************************************)
(* SpecInt: encode_int on a value and its constraints, decode_int on a     *)
(* fresh Decoder over the bytes produced, and decode_int on octets taken   *)
(* from the wire.                                                          *)
(***************************************************************************)
\* the (min, max) given to encode_int: IntRanges and two single-value ranges
ConstrainedRanges == IntRanges \cup {<<5, 5>>, <<0, 0>>, <<0, 256>>, <<-3, 3>>}

\* the values encoded without constraints
UnconstrainedValues ==
    {0, 1, 2, 3, 100, 127, 128, 255, 256, 1000, 65535, -1, -2, -128, -129, -1000}

\* the lower bounds of the semi-constrained integers decoded
SemiMins == {0, 10, -5}

\* the most value octets of an integer taken from the wire
MaxOctets == 2

\* a length determinant L in 1..MaxOctets followed by L octets
WireInts ==
    UNION {{<<k>> \o b : b \in [1..k -> ByteSamples]} : k \in 1..MaxOctets}

IntInit ==
    /\ enc = Encoder_new
    /\ dec = NoDecoder
    /\ inp = NoInput
    /\ ret = Ok(0)
    /\ pc = "idle"

\* let r = encode_int(value, min, max)
EncodeInt(value, min, max) ==
    /\ pc = "idle"
    /\ \E r \in encode_int(value, min, max) :
         /\ enc' = IF r.ok THEN r.val ELSE Encoder_new
         /\ ret' = IF r.ok THEN Ok(0) ELSE r
    /\ inp' = [op |-> "encode_int", value |-> value, min |-> min, max |-> max]
    /\ pc' = "encoded"
    /\ UNCHANGED dec

EncodeConstrained ==
    \E r \in ConstrainedRanges :
        \E value \in {r[1], r[2], r[1] + ((r[2] - r[1]) \div 3)} :
            EncodeInt(value, Some(r[1]), Some(r[2]))

EncodeUnconstrained ==
    \E value \in UnconstrainedValues : EncodeInt(value, None, None)

\* Decoder::new(r.bytes()).decode_int(min, max) with the constraints of the
\* encoding
DecodeEncoded ==
    /\ pc = "encoded"
    /\ ret.ok
    /\ LET r == decode_int(Decoder_new(enc.bytes), inp.min, inp.max)
       IN  /\ dec' = r.self
           /\ ret' = r.res
    /\ pc' = "decoded"
    /\ UNCHANGED <<enc, inp>>

\* Decoder::new(data).decode_int(Some(min), None)
DecodeSemiConstrained ==
    /\ pc = "idle"
    /\ \E data \in WireInts : \E min \in SemiMins :
         LET r == decode_int(Decoder_new(data), Some(min), None)
         IN  /\ dec' = r.self
             /\ ret' = r.res
             /\ inp' = [op |-> "decode_int", data |-> data,
                        min |-> Some(min), max |-> None]
    /\ pc' = "read"
    /\ UNCHANGED enc

IntNext ==
    \/ EncodeConstrained
    \/ EncodeUnconstrained
    \/ DecodeEncoded
    \/ DecodeSemiConstrained

SpecInt == IntInit /\ [][IntNext]_vars

IsConstrained == inp.op = "encode_int" /\ inp.min.some /\ inp.max.some

IsUnconstrained == inp.op = "encode_int" /\ ~inp.min.some /\ ~inp.max.some

\* C4: for min <= v <= max, encode_int(v, Some(min), Some(max)) succeeds and
\* decode_int(Some(min), Some(max)) on a fresh Decoder over its bytes
\* returns v.
C4_ConstrainedRoundTrip ==
    /\ (pc = "encoded" /\ IsConstrained) => ret.ok
    /\ (pc = "decoded" /\ IsConstrained) => ret = Ok(inp.value)

\* the octets of v in two's complement of minimum length
RECURSIVE MinOctetsFrom(_, _)
MinOctetsFrom(v, n) ==
    IF -(2^(8 * n - 1)) <= v /\ v < 2^(8 * n - 1) THEN n
    ELSE MinOctetsFrom(v, n + 1)

TwosComplement(v) == BEBytes(v, MinOctetsFrom(v, 1))

\* C5: encode_int(v, None, None) succeeds with the octet count of v followed
\* by v in two's complement big-endian of minimum length, and
\* decode_int(None, None) over those bytes returns v.
C5_UnconstrainedRoundTrip ==
    /\ (pc = "encoded" /\ IsUnconstrained) =>
            /\ ret.ok
            /\ enc.bytes = <<Len(TwosComplement(inp.value))>>
                                \o TwosComplement(inp.value)
    /\ (pc = "decoded" /\ IsUnconstrained) => ret = Ok(inp.value)

\* C6: decode_int(Some(min), None) over a length determinant L followed by
\* L octets returns min plus the octets read as an unsigned big-endian
\* number.
C6_SemiConstrainedUnsigned ==
    pc = "read" =>
        ret = Ok(inp.min.v + UintOf(SubSeq(inp.data, 2, Len(inp.data))))

(***************************************************************************)
(* SpecLen: decode_length on every first octet, encode_length on lengths   *)
(* around the limits of the short and the long form.                       *)
(***************************************************************************)
\* the lengths given to encode_length
LengthSamples ==
    {0, 1, 63, 64, 127, 128, 129, 255, 256, 300, 16383, 16384, 16385,
     30000, 32768, 65534, 65535, 65536, 70000}

LenInit ==
    /\ enc = Encoder_new
    /\ dec = NoDecoder
    /\ inp = NoInput
    /\ ret = Ok(0)
    /\ pc = "idle"

\* Decoder::new(data).decode_length() over one or two octets
DecodeLength ==
    /\ pc = "idle"
    /\ \E octet1 \in Byte : \E rest \in ByteSeqs(1) :
         LET data == <<octet1>> \o rest
             r    == decode_length(Decoder_new(data))
         IN  /\ dec' = r.self
             /\ ret' = r.res
             /\ inp' = [op |-> "decode_length", data |-> data]
    /\ pc' = "read"
    /\ UNCHANGED enc

\* let r = encode_length(len)
EncodeLength ==
    /\ pc = "idle"
    /\ \E len \in LengthSamples :
         LET r == encode_length(len)
         IN  /\ enc' = IF r.ok THEN r.val ELSE Encoder_new
             /\ ret' = IF r.ok THEN Ok(0) ELSE r
             /\ inp' = [op |-> "encode_length", len |-> len]
    /\ pc' = "encoded"
    /\ UNCHANGED dec

LenNext == DecodeLength \/ EncodeLength

SpecLen == LenInit /\ [][LenNext]_vars

\* C7: decode_length returns the low 7 bits of a first octet 0xxxxxxx and
\* consumes 8 bits, returns ((octet1 & 0x3F) << 8) | octet2 for a first octet
\* 10xxxxxx and consumes 16 bits, and fails with NotImplemented only for a
\* first octet 11xxxxxx.
C7_DecodeLengthWireFormat ==
    (pc = "read" /\ inp.op = "decode_length") =>
        LET octet1 == inp.data[1]
        IN  /\ octet1 < 128 => (ret = Ok(octet1 % 128) /\ dec.pos = 8)
            /\ (octet1 >= 128 /\ octet1 < 192 /\ Len(inp.data) = 2) =>
                    /\ ret = Ok(And8(octet1, 63) * 256 + inp.data[2])
                    /\ dec.pos = 16
            /\ ret = Err("NotImplemented") => octet1 >= 192

\* C8: encode_length(n) fails with NotImplemented for every n >= 16384.
C8_EncodeLengthRejectsAbove14Bits ==
    (pc = "encoded" /\ inp.op = "encode_length" /\ inp.len >= 16384) =>
        ret = Err("NotImplemented")

(***************************************************************************)
(* integer.rs and sequence_of.rs: Vec<T> of a fixed-width integer type T   *)
(***************************************************************************)
\* the integer types of int_impl! whose values fit the model's integers, as
\* their $t::MIN and $t::MAX
IntTypes ==
    {[name |-> "u8", MIN |-> 0, MAX |-> 255],
     [name |-> "u16", MIN |-> 0, MAX |-> 65535],
     [name |-> "i8", MIN |-> -128, MAX |-> 127],
     [name |-> "i16", MIN |-> -32768, MAX |-> 32767]}

\* <$t as APerEncode>::to_aper: the set of its outcomes
int_to_aper(self, T) == encode_int(self, Some(T.MIN), Some(T.MAX))

\* <$t as APerDecode>::from_aper; val as $t keeps the low bits of val
int_from_aper(decoder, T) ==
    LET Cast(r) ==
            IF ~r.res.ok THEN r
            ELSE [res |-> Ok(((r.res.val - T.MIN) % (T.MAX - T.MIN + 1)) + T.MIN),
                  self |-> r.self]
    IN  Cast(decode_int(decoder, Some(T.MIN), Some(T.MAX)))

\* the loop of Vec<T>::to_aper over the elements lo..hi, in order: the set
\* of its outcomes.  The elements are taken by halves, first lo..mid and
\* then mid+1..hi, which keeps the evaluation shallow.
RECURSIVE append_elements(_, _, _, _, _)
append_elements(e, self, lo, hi, T) ==
    IF lo > hi THEN {Ok(e)}
    ELSE IF lo = hi
    THEN {IF ~val.ok THEN val ELSE Ok(append(e, val.val)) :
          val \in int_to_aper(self[lo], T)}
    ELSE UNION {IF ~left.ok THEN {left}
                ELSE append_elements(left.val, self, ((lo + hi) \div 2) + 1, hi, T) :
                left \in append_elements(e, self, lo, (lo + hi) \div 2, T)}

\* Vec<T>::to_aper(&self, constraints): the set of its outcomes
vec_to_aper(self, constraints, T) ==
    LET Elements(enc_r) ==
            IF ~enc_r.ok THEN {enc_r}
            ELSE append_elements(enc_r.val, self, 1, Len(self), T)
    IN  Elements(encode_length(Len(self)))

\* the loop of Vec<T>::from_aper: push T::from_aper(decoder, ..)? n times.
\* The n elements are taken by halves, which keeps the evaluation shallow.
RECURSIVE read_elements(_, _, _, _)
read_elements(decoder, content, n, T) ==
    IF n = 0 THEN [res |-> Ok(content), self |-> decoder]
    ELSE IF n = 1 THEN
        LET Pushed(r) ==
                IF ~r.res.ok THEN r
                ELSE [res |-> Ok(Append(content, r.res.val)), self |-> r.self]
        IN  Pushed(int_from_aper(decoder, T))
    ELSE
        LET Rest(first) ==
                IF ~first.res.ok THEN first
                ELSE read_elements(first.self, first.res.val, n - (n \div 2), T)
        IN  Rest(read_elements(decoder, content, n \div 2, T))

\* Vec<T>::from_aper(decoder, constraints)
vec_from_aper(decoder, constraints, T) ==
    IF ~constraints.size.some
    THEN [res |-> Err("MissingSizeConstraint"), self |-> decoder]
    ELSE
        LET sz_constr == constraints.size.c
            min_len   == IF sz_constr.min.some THEN sz_constr.min.v ELSE 0
            max_len   == IF sz_constr.max.some THEN sz_constr.max.v ELSE 0
            Counted(ret_r) ==
                IF ~ret_r.res.ok THEN ret_r
                ELSE read_elements(ret_r.self, <<>>, ret_r.res.val, T)
        IN  IF max_len >= 65535
            THEN [res |-> Err("NotImplemented"), self |-> decoder]
            ELSE IF max_len = min_len
            THEN read_elements(decoder, <<>>, max_len, T)
            ELSE Counted(decode_length(decoder))

(***************************************************************************)
(* SpecSeq: v.to_aper(constraints) of a Vec<T>, then Vec::<T>::from_aper    *)
(* on a fresh Decoder over the bytes.                                      *)
(***************************************************************************)
\* the longest vector encoded
MaxSeqLen == 128

\* the lengths of the vectors: the short ones and those around the
\* multiples of 64
SeqLens == {n \in 0..MaxSeqLen : n <= 3 \/ (n % 64) \in {63, 0, 1}}

\* the first element of a vector is T::MIN plus one of these
ElementSeeds == {0, 70}

\* a vector of n elements of T, different from one position to the next
VecOf(T, n, seed) ==
    [i \in 1..n |-> T.MIN + ((seed + 37 * (i - 1)) % (T.MAX - T.MIN + 1))]

\* the size constraints under which a vector of n elements is decoded
SizeConstraints(n) ==
    {Constraint_new(None, Some(n)), Constraint_new(None, Some(n + 5)),
     Constraint_new(Some(n), Some(n)), Constraint_new(Some(0), Some(n + 1))}

SizeOnly(c) == [value |-> NoneC, size |-> SomeC(c)]

SeqInit ==
    /\ enc = Encoder_new
    /\ dec = NoDecoder
    /\ inp = NoInput
    /\ ret = Ok(0)
    /\ pc = "idle"

\* let r = v.to_aper(encode_constraints): either UNCONSTRAINED or the
\* constraints the vector is decoded under
VecToAper ==
    /\ pc = "idle"
    /\ \E T \in IntTypes : \E n \in SeqLens : \E seed \in ElementSeeds :
       \E c \in SizeConstraints(n) : \E ec \in {UNCONSTRAINED, SizeOnly(c)} :
       \E r \in vec_to_aper(VecOf(T, n, seed), ec, T) :
         /\ enc' = IF r.ok THEN r.val ELSE Encoder_new
         /\ ret' = IF r.ok THEN Ok(0) ELSE r
         /\ inp' = [op |-> "to_aper", v |-> VecOf(T, n, seed), T |-> T,
                    encode_constraints |-> ec,
                    decode_constraints |-> SizeOnly(c)]
    /\ pc' = "encoded"
    /\ UNCHANGED dec

\* Vec::<T>::from_aper(&mut Decoder::new(r.bytes()), decode_constraints)
VecFromAper ==
    /\ pc = "encoded"
    /\ ret.ok
    /\ LET Decoded(r) == dec' = r.self /\ ret' = r.res
       IN  Decoded(vec_from_aper(Decoder_new(enc.bytes), inp.decode_constraints,
                                 inp.T))
    /\ pc' = "decoded"
    /\ UNCHANGED <<enc, inp>>

SeqNext == VecToAper \/ VecFromAper

SpecSeq == SeqInit /\ [][SeqNext]_vars

\* the size constraint of the decoding
DecodeSize == inp.decode_constraints.size.c

\* C9: a vector of n <= max elements written by to_aper(UNCONSTRAINED) is
\* returned unchanged by from_aper with the size constraint (None, Some(max)).
C9_SequenceOfRoundTrip ==
    /\ (pc = "encoded" /\ inp.encode_constraints = UNCONSTRAINED) => ret.ok
    /\ (/\ pc = "decoded"
        /\ inp.encode_constraints = UNCONSTRAINED
        /\ ~DecodeSize.min.some
        /\ DecodeSize.max.v >= Len(inp.v)) => (ret.ok /\ ret.val = inp.v)

\* the octets of the elements of v: T::MIN..T::MAX of at most 256 values
\* takes one octet per element, of at most 65536 values two
ElementOctets(v, T) ==
    LET width == IF T.MAX - T.MIN < 256 THEN 1 ELSE 2
    IN  [k \in 1..(width * Len(v)) |->
            BEBytes(v[((k - 1) \div width) + 1] - T.MIN, width)[((k - 1) % width) + 1]]

\* the length determinant of n < 16384 on the wire
LengthDeterminant(n) ==
    IF n < 128 THEN <<n>> ELSE <<128 + (n \div 256), n % 256>>

FixedSize == DecodeSize.min.some /\ DecodeSize.max.some
                 /\ DecodeSize.min.v = DecodeSize.max.v

\* the octets before the elements under the size constraint of the decoding
ExpectedPrefix == IF FixedSize THEN <<>> ELSE LengthDeterminant(Len(inp.v))

\* C10: under a size constraint with min == max, to_aper writes no length
\* determinant and from_aper reads none; under every other size constraint
\* the determinant is written and read; so from_aper under the constraints
\* of to_aper returns the vector.
C10_FixedSizeOmitsLength ==
    (inp.op = "to_aper" /\ inp.encode_constraints = inp.decode_constraints) =>
        /\ (pc = "encoded" /\ ret.ok) =>
               enc.bytes = ExpectedPrefix \o ElementOctets(inp.v, inp.T)
        /\ (pc = "decoded" /\ ret.ok) =>
               dec.pos = 8 * (Len(ExpectedPrefix)
                                + Len(ElementOctets(ret.val, inp.T)))
        /\ pc = "decoded" => (ret.ok /\ ret.val = inp.v)

(***************************************************************************)
(* SpecDecoder: any sequence of read, read_u8, read_to_vec, decode_length  *)
(* and decode_int calls on one Decoder.  After a call inp holds the call   *)
(* and the decoder before it, ret its result, and for read_to_vec the      *)
(* vector content after the call; the caller then takes the result and     *)
(* goes on with the decoder as the call left it.                           *)
(***************************************************************************)
\* the longest buffer given to Decoder::new
MaxBuf == 4

\* the most bits asked of read_to_vec
MaxReadBits == 24

\* the octets of the buffers: between them every bit position takes both
\* values; 3 is also a length determinant, 252 a fragment marker
DecoderBytes == {3, 165, 252}

DecoderBuffers == UNION {[1..k -> DecoderBytes] : k \in 0..MaxBuf}

\* the (min, max) given to decode_int
DecodeConstraints ==
    {<<Some(0), Some(2)>>, <<Some(500), Some(503)>>, <<Some(0), Some(255)>>,
     <<Some(0), Some(299)>>, <<Some(0), Some(70000)>>,
     <<Some(0), None>>, <<None, None>>}

\* let mut d = Decoder::new(data)
DecoderInit ==
    /\ enc = Encoder_new
    /\ \E data \in DecoderBuffers : dec = Decoder_new(data)
    /\ inp = NoInput
    /\ ret = Ok(0)
    /\ pc = "ready"

\* the decoder and the result a call leaves behind
Returned(call, r) ==
    /\ pc = "ready"
    /\ dec' = r.self
    /\ ret' = r.res
    /\ inp' = call
    /\ pc' = "returned"
    /\ UNCHANGED enc

\* d.read(n), 0 <= n <= 8
Read ==
    \E n \in 0..8 :
        Returned([op |-> "read", n |-> n, before |-> dec], read(dec, n))

\* d.read_u8()
ReadU8 == Returned([op |-> "read_u8", n |-> 8, before |-> dec], read_u8(dec))

\* let mut content = Vec::new(); d.read_to_vec(&mut content, len)
ReadToVec ==
    \E len \in 1..MaxReadBits :
        LET Filled(r) ==
                Returned([op |-> "read_to_vec", n |-> len, before |-> dec,
                          content |-> r.content], r)
        IN  Filled(read_to_vec(dec, <<>>, len))

\* d.decode_length()
DecodeLen ==
    Returned([op |-> "decode_length", n |-> 0, before |-> dec], decode_length(dec))

\* d.decode_int(min, max)
DecodeInt ==
    \E c \in DecodeConstraints :
        Returned([op |-> "decode_int", n |-> 0, before |-> dec,
                  min |-> c[1], max |-> c[2]],
                 decode_int(dec, c[1], c[2]))

\* the caller takes the result, Ok or Err, and keeps the decoder
TakeResult ==
    /\ pc = "returned"
    /\ inp' = NoInput
    /\ ret' = Ok(0)
    /\ pc' = "ready"
    /\ UNCHANGED <<enc, dec>>

DecoderNext ==
    Read \/ ReadU8 \/ ReadToVec \/ DecodeLen \/ DecodeInt \/ TakeResult

SpecDecoder == DecoderInit /\ [][DecoderNext]_vars

\* bit i of the buffer, counted from 0, most significant bit of an octet first
DataBit(data, i) == BitOf(data[(i \div 8) + 1], 7 - (i % 8))

\* the n bits of the buffer from bit pos on, as a number
RECURSIVE BitsValue(_, _, _)
BitsValue(data, pos, n) ==
    IF n = 0 THEN 0
    ELSE 2 * BitsValue(data, pos, n - 1) + DataBit(data, pos + n - 1)

\* a call of the decoder has returned: inp.before is the decoder before it
Called(op) == pc = "returned" /\ inp.op = op

\* C11: for every buffer, cursor position and n in 0..8, read(n) with
\* pos + n <= len returns the n bits at pos..pos+n-1, most significant
\* first, right-justified in one octet with the high 8-n bits zero, and
\* advances pos by exactly n; with pos + n > len it fails with NotEnoughBits
\* (and leaves the decoder as it was).  Every read advancing by exactly its
\* width, sequential reads of total width n from position 0 end at n.
C11_ReadReturnsBits ==
    Called("read") =>
        IF inp.before.pos + inp.n <= inp.before.len
        THEN /\ ret = Ok(BitsValue(inp.before.data, inp.before.pos, inp.n))
             /\ ret.val < 2^inp.n
             /\ dec = [inp.before EXCEPT !.pos = inp.before.pos + inp.n]
        ELSE /\ ret = Err("NotEnoughBits")
             /\ dec = inp.before

\* a read after earlier reads that crosses an octet boundary and returns
\* bits of both octets
C11_Witness ==
    /\ Called("read")
    /\ ret.ok
    /\ inp.before.pos > 8
    /\ (inp.before.pos % 8) + inp.n > 8
    /\ ret.val # 0
    /\ ret.val % 2 = 1
    /\ dec.pos = inp.before.pos + inp.n

\* C12: for every decoder state and every k > 0 with pos + k <= len,
\* read_to_vec(out, k) succeeds, out gains exactly ceil(k/8) bytes and the
\* cursor advances exactly k bits, whatever pos and k are modulo 8; it
\* fails with NotEnoughBits only when pos + k > len.
C12_ReadToVecAdvancesByLen ==
    Called("read_to_vec") =>
        IF inp.before.pos + inp.n <= inp.before.len
        THEN /\ ret.ok
             /\ Len(inp.content) = CeilDiv8(inp.n)
             /\ dec.pos = inp.before.pos + inp.n
        ELSE ret = Err("NotEnoughBits")

\* C13: read_to_vec pushes the bits read as octets with left-padding: for
\* k >= 8 with k mod 8 # 0 the last octet pushed holds only the final
\* k mod 8 bits of the field, right-justified with its high bits zero.
C13_LastOctetLeftPadded ==
    (Called("read_to_vec") /\ ret.ok /\ inp.n >= 8 /\ inp.n % 8 # 0) =>
        /\ inp.content # <<>>
        /\ inp.content[Len(inp.content)] =
               BitsValue(inp.before.data,
                         inp.before.pos + 8 * (inp.n \div 8), inp.n % 8)

\* C14: decode_int(Some(min), Some(max)) never returns Ok(v) with v outside
\* [min, max], in the sub-octet, the 1- or 2-octet and the length-prefixed
\* case alike.
C14_DecodeIntWithinRange ==
    (Called("decode_int") /\ inp.min.some /\ inp.max.some /\ ret.ok) =>
        /\ inp.min.v <= ret.val
        /\ ret.val <= inp.max.v

\* the buckets of self.data a read of n bits that passed the bounds check
\* indexes: l_bucket always, h_bucket in the third branch only
read_indexes(self, n) ==
    LET l_bucket == self.pos \div 8
        h_bucket == (self.pos + n) \div 8
        h_off    == (self.pos + n) - h_bucket * 8
    IN  IF l_bucket = h_bucket \/ (l_bucket < h_bucket /\ h_off = 0)
        THEN {l_bucket}
        ELSE {l_bucket, h_bucket}

\* C17: after any sequence of read, read_u8, read_to_vec, decode_length and
\* decode_int calls, succeeding or failing, 0 <= pos <= len with
\* len = 8 * number of bytes; no call (the rewinding read_to_vec included)
\* leaves pos below its value before the call; and no read the decoder then
\* admits indexes the buffer past its last byte.
C17_CursorWithinBuffer ==
    /\ dec.len = 8 * Len(dec.data)
    /\ 0 <= dec.pos
    /\ dec.pos <= dec.len
    /\ pc = "returned" => inp.before.pos <= dec.pos
    /\ \A n \in 1..8 :
           dec.pos + n <= dec.len =>
               \A i \in read_indexes(dec, n) : i < Len(dec.data)

\* after an earlier call, a read_to_vec of a length that is not a multiple
\* of 8 has read whole octets up to the end of the buffer and rewound
C17_Witness ==
    /\ Called("read_to_vec")
    /\ ret.ok
    /\ inp.n > 8
    /\ inp.before.pos > 0
    /\ inp.before.pos + 8 * CeilDiv8(inp.n) = dec.len
    /\ dec.pos = dec.len - (inp.n % 8)
    /\ dec.pos < dec.len

\* C15: for a fully constrained integer with range = max - min + 1,
\* encode_int returns a fragment; for range <= 256 it carries exactly
\* ceil(log2(range)) payload bits (8 * bytes - r_padding) in one octet
\* without a length determinant; for 256 < range <= 65536 it is 1 or 2
\* whole octets with r_padding 0; for range > 65536 the value octets follow
\* a length determinant equal to their count.
C15_ConstrainedFragmentSize ==
    (pc = "encoded" /\ IsConstrained) =>
        LET range == inp.max.v - inp.min.v + 1
        IN  /\ ret.ok
            /\ range <= 256 =>
                   /\ Len(enc.bytes) = 1
                   /\ BitLen(enc) = CeilLog2(range)
            /\ (256 < range /\ range <= 65536) =>
                   /\ Len(enc.bytes) \in {1, 2}
                   /\ enc.r_padding = 0
            /\ range > 65536 =>
                   /\ enc.r_padding = 0
                   /\ Len(enc.bytes) >= 2
                   /\ enc.bytes[1] = Len(enc.bytes) - 1

(***************************************************************************)
(* SpecEncoders: from Encoder::new(), fragments of bool::to_aper,          *)
(* encode_length and encode_int (min = max included) are appended to one   *)
(* encoder.  inp.frag holds the fragment an encoder returned.  A fragment  *)
(* with r_padding 8 is not appended: append would shift a u8 by the        *)
(* r_padding again (encode.rs:157), and shift_bytes_left is specified for  *)
(* shifts of 0..7 only.                                                    *)
(***************************************************************************)
\* an encoder is appended to while it has fewer than MaxEncBytes bytes
MaxEncBytes == 2

\* the lengths given to encode_length
FragmentLengths == {0, 127, 300, 65535}

\* the constraints given to encode_int
FragmentRanges ==
    {<<5, 5>>, <<0, 0>>, <<0, 7>>, <<500, 503>>, <<0, 255>>, <<0, 299>>,
     <<0, 70000>>}

EncodersInit ==
    /\ enc = Encoder_new
    /\ dec = NoDecoder
    /\ inp = NoInput
    /\ ret = Ok(0)
    /\ pc = "built"

\* let r = <an encoder of the library>
Fragment(op, r) ==
    /\ pc = "built"
    /\ inp' = [op |-> op, frag |-> IF r.ok THEN r.val ELSE Encoder_new]
    /\ ret' = IF r.ok THEN Ok(0) ELSE r
    /\ pc' = "fragment"
    /\ UNCHANGED <<enc, dec>>

BoolToAper == \E b \in BOOLEAN : Fragment("bool_to_aper", bool_to_aper(b))

EncodeLengthFragment ==
    \E len \in FragmentLengths : Fragment("encode_length", encode_length(len))

EncodeIntFragment ==
    \E r \in FragmentRanges :
        \E value \in {r[1], r[2]} :
            \E outcome \in encode_int(value, Some(r[1]), Some(r[2])) :
                Fragment("encode_int", outcome)

\* enc.append(&r?)
AppendFragment ==
    /\ pc = "fragment"
    /\ ret.ok
    /\ inp.frag.r_padding <= 7
    /\ Len(enc.bytes) < MaxEncBytes
    /\ enc' = append(enc, inp.frag)
    /\ inp' = [op |-> "append", frag |-> inp.frag]
    /\ pc' = "built"
    /\ UNCHANGED <<dec, ret>>

EncodersNext ==
    BoolToAper \/ EncodeLengthFragment \/ EncodeIntFragment \/ AppendFragment

SpecEncoders == EncodersInit /\ [][EncodersNext]_vars

\* C16: every Encoder the library's encoders produce (bool to_aper,
\* encode_length, encode_int for every min <= v <= max, min = max included)
\* and every encoder built from Encoder::new() by appending such encoders
\* has r_padding in [0, 7] and the low r_padding bits of its last byte zero.
C16_EncodersKeepPadding ==
    /\ EncoderInv(enc)
    /\ (pc = "fragment" /\ ret.ok) => EncoderInv(inp.frag)

====
